---- MODULE Spec2Model ----
(***************************************************************************)
(* Model of src/visualize.py: visualize_graph and visualize_max_flow.      *)
(*                                                                         *)
(* Flow values are counted in tenths (0.3 is 3) and edge widths in tenths  *)
(* (0.5 is 5), so 1.0 + 5.0 * flow is 10 + 5 * flow on these integers.     *)
(* A dict entry of a flow-path record is one of: key absent, value None,   *)
(* or a value; dict.get(key) and dict.get(key, default) differ on the      *)
(* first two and are modelled separately.                                  *)
(***************************************************************************)
EXTENDS Integers, Sequences, FiniteSets, TLC

VARIABLES G, flow_paths, source, sink,
          pc, fn, exc, returned, printed_error, title,
          sector_colors, node_colors,
          i, valid_flow_edges, path_issues_count,
          sorted_valid_flow_edges, max_flow_on_edge, edge_widths_list,
          flow_edges_drawn, drawn_color

vars == <<G, flow_paths, source, sink,
          pc, fn, exc, returned, printed_error, title,
          sector_colors, node_colors,
          i, valid_flow_edges, path_issues_count,
          sorted_valid_flow_edges, max_flow_on_edge, edge_widths_list,
          flow_edges_drawn, drawn_color>>

----------------------------------------------------------------------------
(* Bounds of the explored inputs *)

MaxPaths == 2
MaxLen == 3

(* Program constants of the width formula, in tenths *)
MinimumWidth == 5
BaseWidth == 10
Scale == 5

----------------------------------------------------------------------------
(* Input domains *)

GraphNodes == {"A", "B"}
PathNames == {"A", "B", "X"}
NoSector == "<no sector attribute>"
SectorValues == {"Tech", "Unknown"}
FlowValues == {-2, 0, 3, 7}

SeqsUpTo(S, n) == UNION {[1..k -> S] : k \in 0..n}

PathEntries(paths) ==
    {[pk |-> "absent", path |-> <<>>], [pk |-> "none", path |-> <<>>]}
    \cup {[pk |-> "list", path |-> p] : p \in paths}

FlowEntries ==
    {[fk |-> "absent", flow |-> 0], [fk |-> "none", flow |-> 0]}
    \cup {[fk |-> "num", flow |-> f] : f \in FlowValues}

Records(paths) ==
    {[pk |-> pe.pk, path |-> pe.path, fk |-> fe.fk, flow |-> fe.flow] :
        pe \in PathEntries(paths), fe \in FlowEntries}

SamplePaths ==
    {<<>>, <<"A", "B">>, <<"B", "A">>, <<"A", "B", "A">>, <<"A", "B", "X">>}

EdgeChoices == SUBSET {<<"A", "B">>, <<"B", "A">>}

----------------------------------------------------------------------------
(* Python helpers *)

Max(a, b) == IF a >= b THEN a ELSE b

NameRank(s) == CASE s = "A" -> 1 [] s = "B" -> 2 [] s = "X" -> 3 [] OTHER -> 4

TupleLess(e, f) ==
    \/ NameRank(e[1]) < NameRank(f[1])
    \/ NameRank(e[1]) = NameRank(f[1]) /\ NameRank(e[2]) < NameRank(f[2])

RECURSIVE sorted(_)
sorted(S) ==
    IF S = {} THEN <<>>
    ELSE LET m == CHOOSE e \in S : \A f \in S \ {e} : TupleLess(e, f)
         IN <<m>> \o sorted(S \ {m})

InGraph(g, n) == n \in g.nodes

(* mutant: the edge test ignores the direction *)
has_edge_undirected(g, u, v) == <<u, v>> \in g.edges \/ <<v, u>> \in g.edges

has_edge(g, u, v) == <<u, v>> \in g.edges

----------------------------------------------------------------------------
(* Colors: a color is <<name, index>>; color_map(i) is <<"cmap", i>> *)

Gray == <<"gray", 0>>
Green == <<"green", 0>>
Red == <<"red", 0>>
DefaultNodeColor == <<"#1f78b4", 0>>
color_map(k) == <<"cmap", k>>

(* set(nx.get_node_attributes(G, 'sector').values()) *)
Sectors(g) == {g.sector[n] : n \in {m \in g.nodes : g.sector[m] # NoSector}}

(* enumerate(sectors): a Python set is iterated in an unspecified order *)
EnumerateOrders(S) ==
    {f \in [S -> 0..(Cardinality(S) - 1)] : \A a, b \in S : a # b => f[a] # f[b]}

SectorColors(S, order) == [s \in S |-> color_map(order[s])]

(* sector_colors[G.nodes[node]['sector']] raises KeyError without the attribute *)
GraphNodeColorsRaise(g) == \E n \in g.nodes : g.sector[n] = NoSector

GraphNodeColors(g, sc) == [n \in g.nodes |-> sc[g.sector[n]]]

(* sector_colors.get(G.nodes[node].get('sector', 'Unknown'), 'gray') *)
FlowNodeColor(g, sc, n) ==
    LET s == IF g.sector[n] = NoSector THEN "Unknown" ELSE g.sector[n]
    IN  IF s \in DOMAIN sc THEN sc[s] ELSE Gray

FlowNodeColors(g, sc) == [n \in g.nodes |-> FlowNodeColor(g, sc, n)]

----------------------------------------------------------------------------
(* Validation of one flow-path record *)

PathSkipped(rec) == ~(rec.pk = "list" /\ rec.path # <<>>)

FlowIsNone(rec) == rec.fk # "num"

(* mutant: the nodes of a path are not checked against G *)
NodesValid_unchecked(g, p) == TRUE

NodesValid(g, p) == \A k \in 1..Len(p) : InGraph(g, p[k])

SegmentIndexes(p) == 1..(Len(p) - 1)

(* mutant: one missing edge discards the whole record *)
ValidatePath_all_or_nothing(g, rec, edges, issues) ==
    IF PathSkipped(rec) \/ FlowIsNone(rec) \/ ~NodesValid(g, rec.path)
    THEN [edges |-> edges, issues |-> issues + 1]
    ELSE LET p == rec.path
         IN  IF \A j \in SegmentIndexes(p) : has_edge(g, p[j], p[j + 1])
             THEN [edges |-> edges \cup {<<p[j], p[j + 1]>> : j \in SegmentIndexes(p)},
                   issues |-> issues]
             ELSE [edges |-> edges, issues |-> issues + 1]

ValidatePath(g, rec, edges, issues) ==
    IF PathSkipped(rec) THEN [edges |-> edges, issues |-> issues + 1]
    ELSE IF FlowIsNone(rec) THEN [edges |-> edges, issues |-> issues + 1]
    ELSE IF ~NodesValid(g, rec.path) THEN [edges |-> edges, issues |-> issues + 1]
    ELSE LET p == rec.path
             good == {j \in SegmentIndexes(p) : has_edge(g, p[j], p[j + 1])}
             bad == SegmentIndexes(p) \ good
         IN  [edges |-> edges \cup {<<p[j], p[j + 1]>> : j \in good},
              issues |-> issues + Cardinality(bad)]

----------------------------------------------------------------------------
(* Aggregation of the flow of one highlighted edge over all original paths *)

PairIn(p, u, v) == \E j \in SegmentIndexes(p) : p[j] = u /\ p[j + 1] = v

(* mutant: the flow of the last traversing path replaces the running maximum *)
AggregateRecord_last_wins(rec, u, v, acc) ==
    IF rec.pk = "none" THEN [raised |-> TRUE, value |-> acc]
    ELSE IF ~PairIn(rec.path, u, v) THEN [raised |-> FALSE, value |-> acc]
    ELSE IF rec.fk = "none" THEN [raised |-> TRUE, value |-> acc]
    ELSE IF rec.fk = "absent" THEN [raised |-> FALSE, value |-> 0]
    ELSE [raised |-> FALSE, value |-> rec.flow]

(* one iteration of "for path_info in flow_paths" for edge (u, v) *)
AggregateRecord(rec, u, v, acc) ==
    IF rec.pk = "none" THEN [raised |-> TRUE, value |-> acc]
    ELSE IF ~PairIn(rec.path, u, v) THEN [raised |-> FALSE, value |-> acc]
    ELSE IF rec.fk = "none" THEN [raised |-> TRUE, value |-> acc]
    ELSE IF rec.fk = "absent" THEN [raised |-> FALSE, value |-> Max(acc, 0)]
    ELSE [raised |-> FALSE, value |-> Max(acc, rec.flow)]

RECURSIVE MaxFlowFrom(_, _, _, _, _)
MaxFlowFrom(paths, k, u, v, acc) ==
    IF k > Len(paths) THEN [raised |-> FALSE, value |-> acc]
    ELSE LET r == AggregateRecord(paths[k], u, v, acc)
         IN  IF r.raised THEN r ELSE MaxFlowFrom(paths, k + 1, u, v, r.value)

(* mutant: the running maximum starts below every flow instead of at 0.0 *)
max_flow_on_this_edge_from_minus_infinity(paths, e) ==
    MaxFlowFrom(paths, 1, e[1], e[2], -1000)

max_flow_on_this_edge(paths, e) == MaxFlowFrom(paths, 1, e[1], e[2], 0)

EdgeWidth(f) == Max(MinimumWidth, BaseWidth + Scale * f)

AggregationRaises(paths, edges) ==
    \E k \in 1..Len(edges) : max_flow_on_this_edge(paths, edges[k]).raised

EdgeFlows(paths, edges) ==
    [k \in 1..Len(edges) |-> max_flow_on_this_edge(paths, edges[k]).value]

EdgeWidths(flows) == [k \in 1..Len(flows) |-> EdgeWidth(flows[k])]

----------------------------------------------------------------------------
(* Node draw calls: all nodes, then the source, then the sink *)

DrawNodelist(colors, nodelist, color) ==
    [n \in DOMAIN colors |-> IF n \in nodelist THEN color ELSE colors[n]]

(* mutant: the sink is drawn before the source *)
HighlightEndpoints_sink_first(colors, src, snk) ==
    DrawNodelist(DrawNodelist(colors, {snk}, Red), {src}, Green)

HighlightEndpoints(colors, src, snk) ==
    DrawNodelist(DrawNodelist(colors, {src}, Green), {snk}, Red)

----------------------------------------------------------------------------
(* Inputs *)

Graphs(edgeSets, sectorMaps) ==
    {[nodes |-> GraphNodes, sector |-> sm, edges |-> es] :
        es \in edgeSets, sm \in sectorMaps}

PlainSectors == [n \in GraphNodes |-> IF n = "A" THEN "Tech" ELSE "Energy"]

(* many records per list, endpoints and sectors fixed *)
PathInputs ==
    {[G |-> g, flow_paths |-> fp, source |-> "A", sink |-> "B"] :
        g \in Graphs(EdgeChoices, {PlainSectors}),
        fp \in SeqsUpTo(Records(SamplePaths), MaxPaths)}

(* one record with any path of at most MaxLen names *)
LongPathInputs ==
    {[G |-> g, flow_paths |-> <<r>>, source |-> "A", sink |-> "B"] :
        g \in Graphs(EdgeChoices, {PlainSectors}),
        r \in Records(SeqsUpTo(PathNames, MaxLen))}

(* endpoints and sector attributes vary *)
EncodingInputs ==
    {[G |-> g, flow_paths |-> fp, source |-> s, sink |-> t] :
        g \in Graphs({{<<"A", "B">>}}, [GraphNodes -> SectorValues \cup {NoSector}]),
        fp \in {<<>>, <<[pk |-> "list", path |-> <<"A", "B">>, fk |-> "num", flow |-> 7]>>},
        s \in PathNames, t \in PathNames}

Inputs == PathInputs \cup LongPathInputs \cup EncodingInputs

----------------------------------------------------------------------------
(* State machine *)

NoColors == [n \in {} |-> Gray]

Init ==
    /\ \E inp \in Inputs :
        /\ G = inp.G
        /\ flow_paths = inp.flow_paths
        /\ source = inp.source
        /\ sink = inp.sink
    /\ pc = "start"
    /\ fn = "none"
    /\ exc = "none"
    /\ returned = "pending"
    /\ printed_error = "none"
    /\ title = "none"
    /\ sector_colors = NoColors
    /\ node_colors = NoColors
    /\ i = 0
    /\ valid_flow_edges = {}
    /\ path_issues_count = 0
    /\ sorted_valid_flow_edges = <<>>
    /\ max_flow_on_edge = <<>>
    /\ edge_widths_list = <<>>
    /\ flow_edges_drawn = FALSE
    /\ drawn_color = NoColors

inputs == <<G, flow_paths, source, sink>>
flowVars == <<i, valid_flow_edges, path_issues_count,
              sorted_valid_flow_edges, max_flow_on_edge, edge_widths_list,
              flow_edges_drawn>>

(* visualize_graph: sector colors, node colors, draw, title. The rescaled
   widths of the generic edges (lines 85-96) feed no node color and are left
   out; any failure before line 107 on a graph without sectors is recorded
   under the same exception. *)
VisualizeGraph ==
    /\ pc = "start"
    /\ fn' = "visualize_graph"
    /\ IF GraphNodeColorsRaise(G)
       THEN /\ exc' = "KeyError"
            /\ pc' = "raised"
            /\ UNCHANGED <<returned, title, sector_colors, node_colors, drawn_color>>
       ELSE \E order \in EnumerateOrders(Sectors(G)) :
            /\ sector_colors' = SectorColors(Sectors(G), order)
            /\ node_colors' = GraphNodeColors(G, sector_colors')
            /\ drawn_color' = node_colors'
            /\ title' = "Company Relationship Network"
            /\ returned' = "None"
            /\ pc' = "done"
            /\ exc' = exc
    /\ UNCHANGED <<inputs, flowVars, printed_error>>

(* visualize_max_flow: "if source not in G" and "if sink not in G" *)
MissingEndpoint(which) ==
    /\ printed_error' = which
    /\ title' = IF which = "source" THEN "Graph (Source not found)"
                ELSE "Graph (Sink not found)"
    /\ drawn_color' = [n \in G.nodes |-> DefaultNodeColor]
    /\ returned' = "None"
    /\ pc' = "done"
    /\ UNCHANGED <<sector_colors, node_colors>>

(* mutant: the sink is tested before the source *)
CheckEndpoints_sink_first ==
    /\ pc = "start"
    /\ fn' = "visualize_max_flow"
    /\ IF ~InGraph(G, sink) THEN MissingEndpoint("sink")
       ELSE IF ~InGraph(G, source) THEN MissingEndpoint("source")
       ELSE \E order \in EnumerateOrders(Sectors(G)) :
            /\ sector_colors' = SectorColors(Sectors(G), order)
            /\ node_colors' = FlowNodeColors(G, sector_colors')
            /\ pc' = "validate"
            /\ UNCHANGED <<printed_error, title, drawn_color, returned>>
    /\ UNCHANGED <<inputs, flowVars, exc>>

CheckEndpoints ==
    /\ pc = "start"
    /\ fn' = "visualize_max_flow"
    /\ IF ~InGraph(G, source) THEN MissingEndpoint("source")
       ELSE IF ~InGraph(G, sink) THEN MissingEndpoint("sink")
       ELSE \E order \in EnumerateOrders(Sectors(G)) :
            /\ sector_colors' = SectorColors(Sectors(G), order)
            /\ node_colors' = FlowNodeColors(G, sector_colors')
            /\ pc' = "validate"
            /\ UNCHANGED <<printed_error, title, drawn_color, returned>>
    /\ UNCHANGED <<inputs, flowVars, exc>>

(* one iteration of "for i, path_info in enumerate(flow_paths)" *)
ValidateNextPath ==
    /\ pc = "validate"
    /\ i < Len(flow_paths)
    /\ LET r == ValidatePath(G, flow_paths[i + 1], valid_flow_edges, path_issues_count)
       IN  /\ valid_flow_edges' = r.edges
           /\ path_issues_count' = r.issues
    /\ i' = i + 1
    /\ UNCHANGED <<inputs, pc, fn, exc, returned, printed_error, title,
                   sector_colors, node_colors, sorted_valid_flow_edges,
                   max_flow_on_edge, edge_widths_list, flow_edges_drawn, drawn_color>>

(* "if valid_flow_edges:" sort, aggregate, compute widths, draw the flow edges *)
EncodeFlowEdges ==
    /\ pc = "validate"
    /\ i = Len(flow_paths)
    /\ LET edges == sorted(valid_flow_edges)
       IN  IF AggregationRaises(flow_paths, edges)
           THEN /\ exc' = "TypeError"
                /\ pc' = "raised"
                /\ sorted_valid_flow_edges' = edges
                /\ UNCHANGED <<max_flow_on_edge, edge_widths_list, flow_edges_drawn>>
           ELSE /\ sorted_valid_flow_edges' = edges
                /\ max_flow_on_edge' = EdgeFlows(flow_paths, edges)
                /\ edge_widths_list' = EdgeWidths(max_flow_on_edge')
                /\ flow_edges_drawn' = (valid_flow_edges # {})
                /\ pc' = "draw"
                /\ exc' = exc
    /\ UNCHANGED <<inputs, fn, returned, printed_error, title, sector_colors,
                   node_colors, i, valid_flow_edges, path_issues_count, drawn_color>>

(* draw nodes, highlight source and sink, title, return *)
DrawNodes ==
    /\ pc = "draw"
    /\ drawn_color' = HighlightEndpoints(node_colors, source, sink)
    /\ title' = "Maximum Flow"
    /\ returned' = "None"
    /\ pc' = "done"
    /\ UNCHANGED <<inputs, flowVars, fn, exc, printed_error, sector_colors, node_colors>>

Next ==
    \/ VisualizeGraph
    \/ CheckEndpoints
    \/ ValidateNextPath
    \/ EncodeFlowEdges
    \/ DrawNodes

Spec == Init /\ [][Next]_vars

----------------------------------------------------------------------------
(* The whole validation loop and the whole run as functions of the inputs *)

RECURSIVE ValidateAll(_, _, _, _)
ValidateAll(g, paths, k, acc) ==
    IF k > Len(paths) THEN acc
    ELSE ValidateAll(g, paths, k + 1, ValidatePath(g, paths[k], acc.edges, acc.issues))

RunOutcome(g, paths) ==
    LET edges == sorted(ValidateAll(g, paths, 1, [edges |-> {}, issues |-> 0]).edges)
    IN  IF AggregationRaises(paths, edges)
        THEN [raised |-> TRUE, edges |-> edges, flows |-> <<>>, widths |-> <<>>]
        ELSE [raised |-> FALSE, edges |-> edges, flows |-> EdgeFlows(paths, edges),
              widths |-> EdgeWidths(EdgeFlows(paths, edges))]

----------------------------------------------------------------------------
(* Vocabulary of the properties *)

SetMax(S) == CHOOSE x \in S : \A y \in S : x >= y

InMaxFlow == fn = "visualize_max_flow"

Aggregated == InMaxFlow /\ pc \in {"draw", "done"} /\ printed_error = "none"

(* a record that passes validation: non-empty path, flow present, every node in G *)
Validates(rec) ==
    /\ rec.pk = "list"
    /\ rec.path # <<>>
    /\ rec.fk = "num"
    /\ \A k \in 1..Len(rec.path) : rec.path[k] \in G.nodes

Traverses(rec, e) ==
    \E j \in 1..(Len(rec.path) - 1) : rec.path[j] = e[1] /\ rec.path[j + 1] = e[2]

Pairs(rec) == {<<rec.path[j], rec.path[j + 1]>> : j \in 1..(Len(rec.path) - 1)}

MissingEdgeIndexes(rec) ==
    {j \in 1..(Len(rec.path) - 1) : <<rec.path[j], rec.path[j + 1]>> \notin G.edges}

OneMissingEdge(rec) == Validates(rec) /\ Cardinality(MissingEdgeIndexes(rec)) = 1

HasMissingNode(rec) ==
    rec.pk = "list" /\ \E k \in 1..Len(rec.path) : rec.path[k] \notin G.nodes

ValidatingFlows(e) ==
    {flow_paths[j].flow : j \in {k \in 1..Len(flow_paths) :
        Validates(flow_paths[k]) /\ Traverses(flow_paths[k], e)}}

Validating == pc = "validate" /\ i < Len(flow_paths)

----------------------------------------------------------------------------
(* C1: the flow value that encodes a highlighted edge is the maximum of the
   flows of exactly the records that passed validation and traverse the edge;
   rejected records contribute nothing. Stated for lists that carry no
   negative flow, where the starting value 0.0 of the running maximum cannot
   show. *)
C1_MaxOfValidatingPaths ==
    (Aggregated /\ \A j \in 1..Len(flow_paths) : flow_paths[j].flow >= 0) =>
        \A k \in 1..Len(sorted_valid_flow_edges) :
            /\ ValidatingFlows(sorted_valid_flow_edges[k]) # {}
            /\ max_flow_on_edge[k] = SetMax(ValidatingFlows(sorted_valid_flow_edges[k]))

(* C2: validation and aggregation of visualize_max_flow never raise, whatever
   malformed records the list holds. *)
C2_NeverRaises == InMaxFlow => (exc = "none" /\ pc # "raised")

(* C3: for a record whose nodes are all in G and that has exactly one
   consecutive pair that is no edge of G, validating it counts one defect,
   leaves that pair out and adds every other pair of the record; once the
   flows are aggregated each of those other pairs carries at least the
   record's flow. *)
C3_OnlyMissingSegmentExcluded ==
    /\ [][(Validating /\ OneMissingEdge(flow_paths[i + 1])) =>
            LET rec == flow_paths[i + 1]
                bad == CHOOSE j \in MissingEdgeIndexes(rec) : TRUE
                others == {<<rec.path[j], rec.path[j + 1]>> :
                              j \in (1..(Len(rec.path) - 1)) \ {bad}}
            IN  /\ path_issues_count' = path_issues_count + 1
                /\ valid_flow_edges' = valid_flow_edges \cup others
                /\ <<rec.path[bad], rec.path[bad + 1]>> \notin valid_flow_edges']_vars
    /\ [](Aggregated =>
            \A j \in 1..Len(flow_paths) :
                OneMissingEdge(flow_paths[j]) =>
                    \A e \in Pairs(flow_paths[j]) \cap G.edges :
                        \E k \in 1..Len(sorted_valid_flow_edges) :
                            /\ sorted_valid_flow_edges[k] = e
                            /\ max_flow_on_edge[k] >= flow_paths[j].flow)

C3_Witness ==
    /\ Aggregated
    /\ Len(flow_paths) = 1
    /\ OneMissingEdge(flow_paths[1])
    /\ Len(flow_paths[1].path) = 3
    /\ flow_paths[1].flow = 7
    /\ path_issues_count = 1
    /\ Cardinality(valid_flow_edges) = 1
    /\ max_flow_on_edge = <<7>>

(* C4: a record with at least one node absent from G is discarded whole:
   validating it adds no pair to the highlighted set and counts exactly one
   defect. *)
C4_MissingNodeDiscardsRecord ==
    [][(Validating /\ HasMissingNode(flow_paths[i + 1])) =>
            /\ valid_flow_edges' = valid_flow_edges
            /\ path_issues_count' = path_issues_count + 1]_vars

C4_Witness ==
    /\ InMaxFlow
    /\ flow_paths = <<[pk |-> "list", path |-> <<"A", "B", "X">>, fk |-> "num", flow |-> 7]>>
    /\ <<"A", "B">> \in G.edges
    /\ i = 1
    /\ valid_flow_edges = {}
    /\ path_issues_count = 1

(* C5: validation and aggregation of any permutation of the flow-path list
   give the same sorted highlighted edges with the same flows and widths (and
   fail on the same lists). *)
C5_OrderIndependent ==
    (InMaxFlow /\ pc \in {"draw", "raised"}) =>
        \A f \in Permutations(1..Len(flow_paths)) :
            RunOutcome(G, [k \in 1..Len(flow_paths) |-> flow_paths[f[k]]])
                = [raised |-> pc = "raised", edges |-> sorted_valid_flow_edges,
                   flows |-> max_flow_on_edge, widths |-> edge_widths_list]

C5_Witness ==
    /\ Aggregated
    /\ Len(flow_paths) = 2
    /\ Validates(flow_paths[1]) /\ Validates(flow_paths[2])
    /\ flow_paths[1].path = <<"A", "B", "A">>
    /\ flow_paths[2].path = <<"B", "A">>
    /\ flow_paths[1].flow = 0 /\ flow_paths[2].flow = 7
    /\ sorted_valid_flow_edges = << <<"A", "B">>, <<"B", "A">> >>
    /\ max_flow_on_edge = <<0, 7>>

(* C6: at every step every highlighted pair is a directed edge of G in that
   orientation and a consecutive pair of a record already processed. *)
C6_HighlightedAreEdges ==
    /\ \A e \in valid_flow_edges :
        /\ e \in G.edges
        /\ \E k \in 1..i : flow_paths[k].pk = "list" /\ Traverses(flow_paths[k], e)
    /\ \A k \in 1..Len(sorted_valid_flow_edges) :
        sorted_valid_flow_edges[k] \in valid_flow_edges

C6_Witness ==
    /\ InMaxFlow
    /\ i = 1
    /\ Validates(flow_paths[1])
    /\ flow_paths[1].path = <<"B", "A", "B">>
    /\ <<"B", "A">> \notin G.edges
    /\ valid_flow_edges = {<<"A", "B">>}

(* C7 as claimed: a missing source or sink is signalled to the caller in a way
   distinguishable from a successful run (a return value other than None or
   an exception), and no flow highlighting is attempted. *)
C7_MissingEndpointSignalled ==
    (InMaxFlow /\ pc = "done" /\ (source \notin G.nodes \/ sink \notin G.nodes)) =>
        /\ (returned # "None" \/ exc # "none")
        /\ i = 0
        /\ valid_flow_edges = {}
        /\ ~flow_edges_drawn

(* C7 amended: a missing source or sink is reported by the printed ERROR line
   and the figure title, which name the source when both are missing; the
   call returns None without an exception, as a successful run does; no
   record is validated, no edge is highlighted and no node gets the source or
   sink color. *)
C7_MissingEndpointReported ==
    (InMaxFlow /\ pc = "done" /\ (source \notin G.nodes \/ sink \notin G.nodes)) =>
        /\ printed_error = (IF source \notin G.nodes THEN "source" ELSE "sink")
        /\ title = (IF source \notin G.nodes THEN "Graph (Source not found)"
                    ELSE "Graph (Sink not found)")
        /\ returned = "None" /\ exc = "none"
        /\ i = 0
        /\ valid_flow_edges = {}
        /\ sorted_valid_flow_edges = <<>>
        /\ ~flow_edges_drawn
        /\ \A n \in G.nodes : drawn_color[n] \notin {Green, Red}

C7_Witness ==
    /\ InMaxFlow /\ pc = "done"
    /\ source \notin G.nodes /\ sink \notin G.nodes
    /\ flow_paths # <<>>
    /\ printed_error = "source"

(* C8 as claimed: after the node draw calls the source is green and the sink
   is red, for every choice of source and sink in G. *)
C8_EndpointsGreenAndRed ==
    (InMaxFlow /\ pc = "done" /\ printed_error = "none") =>
        /\ drawn_color[source] = Green
        /\ drawn_color[sink] = Red

(* C8 amended: after the node draw calls the sink is red, and the source is
   green when it differs from the sink; when source and sink are the same
   node it ends red, the sink being drawn last. Both override the sector
   color and nodes other than the endpoints keep their sector color. *)
C8_SinkRedSourceGreenIfDistinct ==
    (InMaxFlow /\ pc = "done" /\ printed_error = "none") =>
        /\ drawn_color[sink] = Red
        /\ source # sink => drawn_color[source] = Green
        /\ source = sink => drawn_color[source] = Red
        /\ node_colors[source] \notin {Green, Red}
        /\ node_colors[sink] \notin {Green, Red}
        /\ \A n \in G.nodes \ {source, sink} : drawn_color[n] = node_colors[n]

C8_Witness ==
    /\ InMaxFlow /\ pc = "done" /\ printed_error = "none"
    /\ source = sink
    /\ G.sector[source] = "Tech"
    /\ drawn_color[source] = Red

(* C9 as claimed: the width of a highlighted edge is
   max(0.5, 1.0 + 5.0 * f) with f the maximum flow of the records that
   traverse the edge, not clamped at zero. *)
C9_WidthOfUnclampedMax ==
    Aggregated =>
        \A k \in 1..Len(sorted_valid_flow_edges) :
            LET fs == {flow_paths[j].flow : j \in {m \in 1..Len(flow_paths) :
                          /\ flow_paths[m].fk = "num"
                          /\ Traverses(flow_paths[m], sorted_valid_flow_edges[k])}}
                f == SetMax(fs)
            IN  edge_widths_list[k] =
                    (IF BaseWidth + Scale * f >= MinimumWidth
                     THEN BaseWidth + Scale * f ELSE MinimumWidth)

(* C9 amended: the width of a highlighted edge is max(0.5, 1.0 + 5.0 * a)
   where a is the flow aggregated for the edge, a running maximum that starts
   at 0.0 and so is never negative; an edge whose records all carry a
   negative flow has a = 0 and width 1.0, and every width is at least 1.0. *)
C9_WidthOfClampedMax ==
    Aggregated =>
        /\ Len(edge_widths_list) = Len(sorted_valid_flow_edges)
        /\ Len(max_flow_on_edge) = Len(sorted_valid_flow_edges)
        /\ \A k \in 1..Len(sorted_valid_flow_edges) :
            LET a == max_flow_on_edge[k]
                rs == {m \in 1..Len(flow_paths) :
                          Traverses(flow_paths[m], sorted_valid_flow_edges[k])}
            IN  /\ a >= 0
                /\ edge_widths_list[k] =
                    (IF BaseWidth + Scale * a >= MinimumWidth
                     THEN BaseWidth + Scale * a ELSE MinimumWidth)
                /\ edge_widths_list[k] >= BaseWidth
                /\ (\A m \in rs : flow_paths[m].fk = "num" /\ flow_paths[m].flow < 0)
                      => (a = 0 /\ edge_widths_list[k] = BaseWidth)
                /\ (\E m \in rs : flow_paths[m].fk = "num" /\ flow_paths[m].flow > 0)
                      => a > 0

C9_Witness ==
    /\ Aggregated
    /\ Len(flow_paths) = 2
    /\ flow_paths[1].path = <<"A", "B">> /\ flow_paths[2].path = <<"A", "B">>
    /\ flow_paths[1].fk = "num" /\ flow_paths[2].fk = "num"
    /\ flow_paths[1].flow = -2 /\ flow_paths[2].flow = -2
    /\ sorted_valid_flow_edges = << <<"A", "B">> >>
    /\ edge_widths_list = <<10>>

(* C10: a node without a sector attribute gets the fallback color gray, which
   differs from the color of every sector of G, and computing the node colors
   fails in neither visualize_graph nor visualize_max_flow. *)
C10_FallbackColor ==
    /\ fn = "visualize_graph" => (exc = "none" /\ pc # "raised")
    /\ (InMaxFlow /\ pc \in {"validate", "draw"}) =>
          \A n \in G.nodes :
              G.sector[n] = NoSector =>
                  /\ node_colors[n] = Gray
                  /\ \A s \in DOMAIN sector_colors : sector_colors[s] # node_colors[n]

====
